---- MODULE Spec2Model ----
(***************************************************************************)
(* BattMon (pc/battmon.py): the battery monitor BattMonCrossPlatform as a  *)
(* state machine.  One step of the machine is one run of a handler on the  *)
(* GUI thread: the QTimer callback update_battery (with the sleep          *)
(* detection, the milestone tracker check_milestone_notifications, the     *)
(* pulse handling and the drop beep), the pulse timer's callback           *)
(* pulse_update, or show_startup_notification.  The battery query          *)
(* get_battery_info, the acpi parser of get_battery_info_linux and the     *)
(* sinks of show_desktop_notification are operators the handlers apply.    *)
(*                                                                         *)
(* Python None is the integer None (-1): every tracked value is >= 0.      *)
(* Times are in seconds, opacities in tenths (1.0 is 10, 0.3 is 3).        *)
(* last_percentage / last_state only decide a console print and are left   *)
(* out; tooltip, menu text and the drawing of the icon are presentation,   *)
(* the colour tier of the icon is kept.                                    *)
(***************************************************************************)
EXTENDS Integers, Sequences, FiniteSets, TLC

VARIABLES
    \* the host: platform.system(), how its two notification sinks answer, and
    \* what its acpi command prints
    CURRENT_OS,
    tray,
    notifier,
    text,
    \* the user profile as read by __init__
    milestone_thresholds,
    charging_milestones,
    notifications_enabled,
    play_sound,
    sleep_notifications_enabled,
    sleep_threshold,
    \* monitor state
    initialize_milestone_tracking,
    last_milestone_triggered,
    last_charging_milestone,
    last_seen_percent,
    was_asleep,
    pulse_timer,
    pulse_opacity,
    pulse_direction,
    pulse_timers_running,
    started,
    \* what the latest handler did and saw; painted is the colour it gave the
    \* tray icon, "none" if it left the icon as it was
    notifications,
    beeps,
    info,
    gap,
    wake_seen,
    milestone_beeped,
    drop_beeped,
    sinks,
    raised,
    painted,
    pulsed,
    \* observers of the run so far
    watch,
    watch_state,
    replay,
    launch55,
    recharge50,
    \* the popup test program (battery_popup.py): PopupManager and its popups
    popup_count,
    closed_popups,
    active_popups,
    creation_timer,
    app,
    \* profile.json on disk, the monitor process and its user_profile dict
    profile_json,
    monitor,
    user_profile,
    \* the Profile Editor dialog (profile_editor.py): its profile_data dict,
    \* its input widgets, and what the latest save_profile did
    editor,
    profile_data,
    widgets,
    save_result,
    \* the editor dialogs opened so far, and where the monitor was when the
    \* editor last wrote the file
    sessions,
    editor_wrote

host_vars == <<CURRENT_OS, tray, notifier, text>>

profile_vars == <<milestone_thresholds, charging_milestones, notifications_enabled,
                  play_sound, sleep_notifications_enabled, sleep_threshold>>

monitor_vars == <<initialize_milestone_tracking, last_milestone_triggered,
                  last_charging_milestone, last_seen_percent, was_asleep,
                  pulse_timer, pulse_opacity, pulse_direction, pulse_timers_running,
                  started>>

tick_vars == <<notifications, beeps, info, gap, wake_seen, milestone_beeped, drop_beeped,
               sinks, raised, painted, pulsed>>

observer_vars == <<watch, watch_state, replay, launch55, recharge50>>

popup_vars == <<popup_count, closed_popups, active_popups, creation_timer, app>>

file_vars == <<profile_json, monitor, user_profile>>

editor_vars == <<editor, profile_data, widgets, save_result, sessions, editor_wrote>>

\* the state of the programs that run beside the monitor, and the disk
outside_vars == <<popup_vars, file_vars, editor_vars>>

\* the state of the monitor process
battmon_vars == <<host_vars, profile_vars, monitor_vars, tick_vars, observer_vars>>

vars == <<battmon_vars, outside_vars>>

----------------------------------------------------------------------------
\* Bounds of the model

\* the number of steps of the even grid of sampled percentages
Grid == 4

----------------------------------------------------------------------------
\* Program constants

None == -1

\* the timer period in milliseconds
TIMEOUT == 2000

DefaultSleepThreshold == 300

FastPulse == 300

SlowPulse == 600

default_milestone_thresholds == <<90, 80, 70, 60, 50, 40, 30, 20, 10>>

default_charging_milestones == <<25, 50, 75, 90, 100>>

\* the states a reading can carry: the four canonical ones, a raw acpi state
\* passed through by the comma format, and the fallback 'Error (<OS>)'
States == {"Charging", "Discharging", "Full", "Unknown", "Error"}

NoInfo == [state |-> "NoInfo", percentage |-> None]

\* Python None as the time of a reading
NoTime == "None"

\* Python None where a reading was expected: a provider that returned nothing
NoReading == [state |-> "None", percentage |-> None]

\* platform.system() on the hosts told apart by IS_WINDOWS, IS_LINUX and
\* IS_MACOS, and on any other host
Hosts == {"Windows", "Linux", "Darwin", "Other"}

\* an exception is the name of its class, "ok" is a normal return
Failures == {"FileNotFoundError", "TimeoutExpired", "Exception"}

----------------------------------------------------------------------------
\* Helpers standing for Python built-ins

Max(a, b) == IF a >= b THEN a ELSE b

\* insert x into a descending sequence, after the elements equal to it
RECURSIVE InsertDesc(_, _)
InsertDesc(x, s) ==
    IF s = <<>> THEN <<x>>
    ELSE IF Head(s) >= x THEN <<Head(s)>> \o InsertDesc(x, Tail(s))
    ELSE <<x>> \o s

\* sorted(s, reverse=True)
RECURSIVE SortedReverse(_)
SortedReverse(s) ==
    IF s = <<>> THEN <<>>
    ELSE InsertDesc(Head(s), SortedReverse(Tail(s)))

\* s.lower() in ('charging', 'full'), on the states of the model
LowerIsChargingOrFull(state) == state \in {"Charging", "Full"}

----------------------------------------------------------------------------
\* The tick handler's charging predicate (update_battery, pulse_update)

is_charging(state) == state \notin {"Discharging", "Full", "Unknown"}

----------------------------------------------------------------------------
\* Notification dispatch.  m is the record of what a run of the handler has
\* written so far: the two trackers and the notifications and beeps emitted.

Note(kind, milestone, type) == [kind |-> kind, milestone |-> milestone, type |-> type]

show_desktop_notification(out, note) ==
    IF ~notifications_enabled THEN out ELSE Append(out, note)

alert_beep(out, times) == Append(out, Max(1, times))

charging_type(milestone) ==
    IF milestone = 100 THEN "info"
    ELSE IF milestone >= 75 THEN "info"
    ELSE "info"

\* discharge_type with < in place of <= at the critical level
discharge_type_strict(milestone) ==
    IF milestone < 10 THEN "critical"
    ELSE IF milestone <= 20 THEN "warning"
    ELSE IF milestone <= 30 THEN "warning"
    ELSE "info"

discharge_type(milestone) ==
    IF milestone <= 10 THEN "critical"
    ELSE IF milestone <= 20 THEN "warning"
    ELSE IF milestone <= 30 THEN "warning"
    ELSE "info"

discharge_beeps(milestone) ==
    IF milestone <= 10 THEN 3
    ELSE IF milestone <= 20 THEN 2
    ELSE 1

\* the body of the charging loop for a matching milestone, up to its break
fire_charging(milestone, m) ==
    [m EXCEPT !.notifications =
                  show_desktop_notification(@, Note("charging", milestone,
                                                    charging_type(milestone))),
              !.last_charging_milestone = milestone,
              !.beeps = IF play_sound THEN alert_beep(@, 1) ELSE @]

\* the body of the discharge loop for a matching milestone, up to its break
fire_discharge(milestone, m) ==
    [m EXCEPT !.notifications =
                  show_desktop_notification(@, Note("discharge", milestone,
                                                    discharge_type(milestone))),
              !.last_milestone_triggered = milestone,
              !.beeps = IF play_sound THEN alert_beep(@, discharge_beeps(milestone))
                        ELSE @]

\* for milestone in self.charging_milestones: ... break
RECURSIVE charging_loop(_, _, _)
charging_loop(i, percentage, m) ==
    IF i > Len(charging_milestones) THEN m
    ELSE LET milestone == charging_milestones[i] IN
         IF /\ percentage >= milestone
            /\ \/ m.last_charging_milestone = None
               \/ m.last_charging_milestone < milestone
         THEN fire_charging(milestone, m)
         ELSE charging_loop(i + 1, percentage, m)

\* discharge_loop without the comparison against the tracker
RECURSIVE discharge_loop_refire(_, _, _)
discharge_loop_refire(i, percentage, m) ==
    IF i > Len(milestone_thresholds) THEN m
    ELSE LET milestone == milestone_thresholds[i] IN
         IF percentage <= milestone
         THEN fire_discharge(milestone, m)
         ELSE discharge_loop_refire(i + 1, percentage, m)

\* discharge_loop without the break
RECURSIVE discharge_loop_no_break(_, _, _)
discharge_loop_no_break(i, percentage, m) ==
    IF i > Len(milestone_thresholds) THEN m
    ELSE LET milestone == milestone_thresholds[i] IN
         IF /\ percentage <= milestone
            /\ \/ m.last_milestone_triggered = None
               \/ m.last_milestone_triggered > milestone
         THEN discharge_loop_no_break(i + 1, percentage, fire_discharge(milestone, m))
         ELSE discharge_loop_no_break(i + 1, percentage, m)

\* for milestone in self.milestone_thresholds: ... break
RECURSIVE discharge_loop(_, _, _)
discharge_loop(i, percentage, m) ==
    IF i > Len(milestone_thresholds) THEN m
    ELSE LET milestone == milestone_thresholds[i] IN
         IF /\ percentage <= milestone
            /\ \/ m.last_milestone_triggered = None
               \/ m.last_milestone_triggered > milestone
         THEN fire_discharge(milestone, m)
         ELSE discharge_loop(i + 1, percentage, m)

\* the not-charging branch without its reset
reset_charging_milestone_skipped(m) == m

\* the reset at the end of the not-charging branch
reset_charging_milestone(m) ==
    IF m.last_charging_milestone # None
    THEN [m EXCEPT !.last_charging_milestone = None]
    ELSE m

check_milestone_notifications(percentage, charging, m) ==
    IF ~notifications_enabled THEN m
    ELSE IF charging THEN charging_loop(1, percentage, m)
    ELSE reset_charging_milestone(discharge_loop(1, percentage, m))

----------------------------------------------------------------------------
\* Startup seeding (update_battery, first run only)

\* for milestone in sorted(list, reverse=True): if milestone <= percentage:
\* tracker = milestone; break.  The tracker keeps its value when none matches.
RECURSIVE seed_loop(_, _, _, _)
seed_loop(i, sorted, percentage, tracker) ==
    IF i > Len(sorted) THEN tracker
    ELSE IF sorted[i] <= percentage THEN sorted[i]
    ELSE seed_loop(i + 1, sorted, percentage, tracker)

\* a first run that seeds nothing
seed_milestone_tracking_skipped(percentage, charging, m) == m

\* seeding on every run: the initialization flag is never removed
seed_milestone_tracking_every_tick(percentage, charging, m) ==
    IF ~charging
    THEN [m EXCEPT !.last_milestone_triggered =
                       seed_loop(1, SortedReverse(milestone_thresholds), percentage, @)]
    ELSE [m EXCEPT !.last_charging_milestone =
                       seed_loop(1, SortedReverse(charging_milestones), percentage, @)]

seed_milestone_tracking(percentage, charging, m) ==
    IF ~initialize_milestone_tracking THEN m
    ELSE IF ~charging
    THEN [m EXCEPT !.last_milestone_triggered =
                       seed_loop(1, SortedReverse(milestone_thresholds), percentage, @)]
    ELSE [m EXCEPT !.last_charging_milestone =
                       seed_loop(1, SortedReverse(charging_milestones), percentage, @)]

----------------------------------------------------------------------------
\* Sleep / wake detection (update_battery, show_wake_up_notification)

wake_type(percentage, charging) ==
    IF percentage <= 20 /\ ~charging THEN "warning"
    ELSE IF percentage <= 10 /\ ~charging THEN "critical"
    ELSE "info"

wake_beeps(percentage, charging) ==
    IF percentage <= 10 /\ ~charging THEN 3
    ELSE IF percentage <= 20 /\ ~charging THEN 2
    ELSE 1

\* show_wake_up_notification queries the battery itself: wake_info is that
\* reading, not the one update_battery takes afterwards; info.get on a None
\* reading raises inside the try and nothing is shown or played
show_wake_up_notification(wake_info, m) ==
    LET charging == LowerIsChargingOrFull(wake_info.state)
        percentage == wake_info.percentage
    IN IF wake_info = NoReading THEN m
       ELSE [m EXCEPT !.notifications =
                          show_desktop_notification(@, Note("wake", None,
                                                            wake_type(percentage, charging))),
                      !.beeps = IF play_sound
                                THEN alert_beep(@, wake_beeps(percentage, charging))
                                ELSE @]

\* the gap test with >= in place of >
woke_up_at_threshold(time_gap) ==
    /\ sleep_notifications_enabled
    /\ time_gap >= sleep_threshold
    /\ ~was_asleep

woke_up(time_gap) ==
    /\ sleep_notifications_enabled
    /\ time_gap > sleep_threshold
    /\ ~was_asleep

was_asleep_after(time_gap) ==
    IF woke_up(time_gap) THEN TRUE
    ELSE IF time_gap <= sleep_threshold THEN FALSE
    ELSE was_asleep

----------------------------------------------------------------------------
\* Pulse animation timer (update_battery, start/stop_pulse_animation).
\* pulse_timer is None or the interval of the QTimer the monitor holds, and
\* pulse_timers_running counts the started QTimers whose timeout is connected
\* to pulse_update: QTimer.start adds one, QTimer.stop takes one away.

timer_active(timer) == timer # None

\* create_battery_icon with > in place of >= at the orange boundary
create_battery_icon_above_30(percentage) ==
    IF percentage >= 75 THEN "Green"
    ELSE IF percentage >= 50 THEN "Yellow"
    ELSE IF percentage > 30 THEN "Orange"
    ELSE "Red"

\* the colour create_battery_icon paints the icon in (4-tier system)
create_battery_icon(percentage) ==
    IF percentage >= 75 THEN "Green"
    ELSE IF percentage >= 50 THEN "Yellow"
    ELSE IF percentage >= 30 THEN "Orange"
    ELSE "Red"

start_pulse_animation(pulse_speed, p) ==
    LET stopped == IF p.pulse_timer # None THEN p.running - 1 ELSE p.running
    IN [p EXCEPT !.pulse_timer = pulse_speed, !.running = stopped + 1]

\* stop_pulse_animation without the QTimer.stop call: the handle is dropped
\* and the timer goes on
stop_pulse_animation_no_stop(p) ==
    [p EXCEPT !.pulse_timer = None, !.pulse_opacity = 10]

stop_pulse_animation(p) ==
    [p EXCEPT !.pulse_timer = None,
              !.running = IF p.pulse_timer # None THEN p.running - 1 ELSE p.running,
              !.pulse_opacity = 10]

handle_pulse(percentage, charging, p) ==
    IF ~charging
    THEN IF percentage < 30
         THEN IF ~timer_active(p.pulse_timer)
              THEN start_pulse_animation(FastPulse, p) ELSE p
         ELSE IF percentage < 50
         THEN IF ~timer_active(p.pulse_timer)
              THEN start_pulse_animation(SlowPulse, p) ELSE p
         ELSE IF timer_active(p.pulse_timer) THEN stop_pulse_animation(p) ELSE p
    ELSE IF timer_active(p.pulse_timer) THEN stop_pulse_animation(p) ELSE p

----------------------------------------------------------------------------
\* Percentage-drop beep (update_battery)

\* drop_beep asking for a drop of more than one point
drop_beep_over_one(percentage, charging, m) ==
    IF last_seen_percent # None
    THEN LET drop_any == last_seen_percent - percentage IN
         IF ~charging /\ drop_any > 1
         THEN IF percentage < 30 THEN [m EXCEPT !.beeps = alert_beep(@, 2)]
              ELSE IF 30 <= percentage /\ percentage < 50
              THEN [m EXCEPT !.beeps = alert_beep(@, 1)]
              ELSE m
         ELSE m
    ELSE m

drop_beep(percentage, charging, m) ==
    IF last_seen_percent # None
    THEN LET drop_any == last_seen_percent - percentage IN
         IF ~charging /\ drop_any >= 1
         THEN IF percentage < 30 THEN [m EXCEPT !.beeps = alert_beep(@, 2)]
              ELSE IF 30 <= percentage /\ percentage < 50
              THEN [m EXCEPT !.beeps = alert_beep(@, 1)]
              ELSE m
         ELSE m
    ELSE m

----------------------------------------------------------------------------
\* Observers: they record what the run did and feed nothing back

\* the set of values of a sequence
Range(s) == {s[i] : i \in DOMAIN s}

\* the milestones notified in one direction by a run of the handler
Notified(kind, notes) == {n.milestone : n \in {x \in Range(notes) : x.kind = kind}}

MilestoneNotes(notes) == SelectSeq(notes, LAMBDA n : n.kind \in {"discharge", "charging"})

\* the reading sequence 92, 81, 79, 78 of a monitor started while discharging
ReplayReadings == <<92, 81, 79, 78>>

replay_after(reading) ==
    IF /\ replay < Len(ReplayReadings)
       /\ replay = 0 => initialize_milestone_tracking
       /\ reading = [state |-> "Discharging", percentage |-> ReplayReadings[replay + 1]]
    THEN replay + 1
    ELSE 0

\* a launch at 55% while discharging: "seeded" from the first tick until the
\* first later reading at or below 50, "crossed" at that reading
launch55_after(reading) ==
    IF is_charging(reading.state) THEN "no"
    ELSE IF initialize_milestone_tracking
    THEN IF reading.percentage = 55 THEN "seeded" ELSE "no"
    ELSE IF launch55 = "seeded"
    THEN IF reading.percentage <= 50 THEN "crossed" ELSE "seeded"
    ELSE "no"

\* charging milestone 50: 0 never notified, 1 notified in the running charging
\* session, 2 notified in a session that has ended, 3 notified again later
recharge50_after(reading, notes) ==
    IF 50 \in Notified("charging", notes)
    THEN IF recharge50 \in {0, 1} THEN 1 ELSE 3
    ELSE IF recharge50 = 1 /\ ~is_charging(reading.state) THEN 2
    ELSE recharge50

\* the beep count of the alert_beep call a step of the handler added, 0 if it
\* added none
BeepAdded(before, after) ==
    IF Len(after.beeps) > Len(before.beeps) THEN after.beeps[Len(after.beeps)] ELSE 0

\* one discharge milestone, watch, followed through a not-charging period:
\* "idle" until it is notified, then "fired"; "rose" once a later reading is
\* above it, "refell" once a reading after that is at or below it again.  A
\* tick that sees charging ends the period.  watch = None follows nothing.
watch_state_after(reading, notes) ==
    IF watch = None \/ is_charging(reading.state) THEN "idle"
    ELSE IF watch_state = "idle"
    THEN IF watch \in Notified("discharge", notes) THEN "fired" ELSE "idle"
    ELSE IF watch_state = "fired"
    THEN IF reading.percentage > watch THEN "rose" ELSE "fired"
    ELSE IF reading.percentage <= watch THEN "refell" ELSE "rose"

----------------------------------------------------------------------------
\* update_battery: one run of the timer callback.  time_gap is the time since
\* the previous run (current_time - last_update_time; last_update_time is set
\* to current_time by every run), reading what get_battery_info returns.

\* get_battery_info_fallback: state 'Error (<OS>)' at 0%
get_battery_info_fallback == [state |-> "Error", percentage |-> 0, time |-> NoTime]

\* what a battery command did: it is not installed, it exited with an error,
\* it printed nothing, it printed nothing because the host has no battery
\* device, or it printed the text of a reading
Commands == {"missing", "error", "empty", "no_devices", "output"}

\* what the wmi module did: it is not installed, WMI raised, Win32_Battery()
\* listed no device, or it listed a battery
Wmi == {"ImportError", "Exception", "no_devices", "device"}

----------------------------------------------------------------------------
\* The acpi text and its parser (get_battery_info_linux)
\*
\* A text is a sequence of lines; a line is the sequence of its
\* comma-separated fields; a field is the sequence of its colon-separated
\* segments; a segment is the sequence of its words.  A time is one word: the
\* parser never splits the part of a line that holds it.

Flatten(segments) ==
    LET F[i \in 0..Len(segments)] == IF i = 0 THEN <<>> ELSE F[i - 1] \o segments[i]
    IN F[Len(segments)]

\* the words of a line, commas and colons dropped
LineWords(line) ==
    LET F[i \in 0..Len(line)] == IF i = 0 THEN <<>> ELSE F[i - 1] \o Flatten(line[i])
    IN F[Len(line)]

\* 'Battery' in line
has_battery(line) == \E i \in DOMAIN LineWords(line) : LineWords(line)[i] = "Battery"

\* ',' in line, ':' in line
has_comma(line) == Len(line) >= 2

has_colon(line) == \E i \in DOMAIN line : Len(line[i]) >= 2

PercentWords == {"0%", "45%", "100%", "150%"}

\* int(match.group(1)) of a word that matches (\d+)%
int_percent(word) ==
    IF word = "0%" THEN 0 ELSE IF word = "45%" THEN 45 ELSE IF word = "100%" THEN 100 ELSE 150

\* re.search(r'(\d+)%', ...): the number of the first match, None without one
search_percent(words) ==
    LET hits == SelectSeq(words, LAMBDA w : w \in PercentWords)
    IN IF hits = <<>> THEN None ELSE int_percent(Head(hits))

TimeWords == {"02:30", "02:30:00"}

\* re.search(r'(\d{2}:\d{2})', ...): the first HH:MM, None without one
search_time(words) ==
    LET hits == SelectSeq(words, LAMBDA w : w \in TimeWords)
    IN IF hits = <<>> THEN NoTime ELSE "02:30"

\* sub in word.lower(), for the words an acpi line is made of
word_contains(word, sub) ==
    \/ sub = "discharging" /\ word = "Discharging"
    \/ sub = "charging" /\ word \in {"Discharging", "Charging", "Not charging"}
    \/ sub = "full" /\ word = "Full"
    \/ sub = "unknown" /\ word = "Unknown"

contains(words, sub) == \E i \in DOMAIN words : word_contains(words[i], sub)

\* data[0].split(':')[1].strip(): the text of a segment; the state names are
\* single words, any longer text is no state the monitor knows
segment_text(segment) ==
    IF segment = <<>> THEN "" ELSE IF Len(segment) = 1 THEN segment[1] ELSE "Other"

\* the line did not give a reading: continue with the next line
Continue == [state |-> "continue", percentage |-> None, time |-> NoTime]

\* Format 1, "Battery 0: Full, 100%": the state after the colon of the first
\* field, the percentage in the second field, the time the second word of
\* the third
comma_format(data) ==
    LET state == IF Len(data[1]) >= 2 THEN segment_text(data[1][2]) ELSE "Unknown"
        percentage == search_percent(Flatten(data[2]))
        time_part == IF Len(data) > 2 THEN Flatten(data[3]) ELSE <<>>
        time == IF Len(data) > 2 /\ state \notin {"Full", "Unknown"} /\ Len(time_part) >= 2
                THEN time_part[2] ELSE NoTime
    IN IF percentage = None THEN Continue
       ELSE [state |-> state, percentage |-> percentage, time |-> time]

\* the colon-separated format: the percentage after the first colon or
\* anywhere in the line, the state by substring, discharging before charging
colon_format(line) ==
    LET info_part == Flatten(Tail(line[1]))
        in_info == search_percent(info_part)
        percentage == IF in_info # None THEN in_info ELSE search_percent(LineWords(line))
        state == IF contains(info_part, "discharging") THEN "Discharging"
                 ELSE IF contains(info_part, "charging") THEN "Charging"
                 ELSE IF contains(info_part, "full") THEN "Full"
                 ELSE "Unknown"
    IN IF percentage = None THEN Continue
       ELSE [state |-> state, percentage |-> percentage, time |-> search_time(info_part)]

\* one pass of the loop over the lines
parse_line(line) ==
    IF line = <<>> \/ ~has_battery(line) THEN Continue
    ELSE IF has_comma(line) THEN comma_format(line)
    ELSE IF has_colon(line) THEN colon_format(line)
    ELSE Continue

RECURSIVE parse_lines(_)
parse_lines(lines) ==
    IF lines = <<>> THEN get_battery_info_fallback
    ELSE IF parse_line(Head(lines)) # Continue THEN parse_line(Head(lines))
    ELSE parse_lines(Tail(lines))

\* get_battery_info_linux on the text acpi printed
parse_acpi(raw) ==
    IF \A i \in DOMAIN raw : ~has_battery(raw[i]) THEN get_battery_info_fallback
    ELSE parse_lines(raw)

----------------------------------------------------------------------------
\* The pmset text and its parser (get_battery_info_macos)
\*
\* A line is the words before its tab (head, empty without a tab) and parts,
\* the text the parser works on: the sequence of its semicolon-separated
\* fields, each the sequence of its words.

PartWords(line) ==
    LET F[i \in 0..Len(line.parts)] == IF i = 0 THEN <<>> ELSE F[i - 1] \o line.parts[i]
    IN F[Len(line.parts)]

\* 'InternalBattery' in line or 'Battery' in line
pmset_has_battery(line) ==
    \E w \in Range(line.head) \cup Range(PartWords(line)) :
        w \in {"-InternalBattery-0", "'Battery"}

\* int(parts.split(';')[0].strip().replace('%', '')): None stands for the
\* ValueError of a first field that is not a number
pmset_percentage(line) ==
    IF Len(line.parts) >= 1 /\ Len(line.parts[1]) = 1 /\ line.parts[1][1] \in PercentWords
    THEN int_percent(line.parts[1][1]) ELSE None

\* sub in word, case-sensitive, for the words a pmset line is made of
pmset_word_contains(word, sub) ==
    \/ sub = "charging" /\ word \in {"charging", "discharging", "Discharging"}
    \/ sub = "discharging" /\ word = "discharging"
    \/ sub = "charged" /\ word = "charged"
    \/ sub = "remaining" /\ word = "remaining"

pmset_contains(line, sub) == \E w \in Range(PartWords(line)) : pmset_word_contains(w, sub)

\* 'charging' is tested first, then 'charged', then 'discharging'
pmset_state(line) ==
    IF pmset_contains(line, "charging") THEN "Charging"
    ELSE IF pmset_contains(line, "charged") THEN "Full"
    ELSE IF pmset_contains(line, "discharging") THEN "Discharging"
    ELSE "Unknown"

\* the text between the last semicolon before 'remaining' and that word, if
\* it holds a colon and is not '0:00'
pmset_time(line) ==
    LET with == SelectSeq(line.parts, LAMBDA f : \E w \in Range(f) : w = "remaining")
        before == IF with = <<>> THEN <<>>
                  ELSE SelectSeq(with[1], LAMBDA w : w \in {"2:30", "0:00"})
    IN IF before # <<>> /\ before[1] # "0:00" /\ with[1][1] = before[1]
       THEN before[1] ELSE NoTime

\* the body of the loop on a battery line; a ValueError leaves the loop for
\* the fallback
pmset_line(line) ==
    IF pmset_percentage(line) = None THEN get_battery_info_fallback
    ELSE [state |-> pmset_state(line), percentage |-> pmset_percentage(line),
          time |-> pmset_time(line)]

RECURSIVE parse_pmset(_)
\* get_battery_info_macos on the text pmset printed: the first line with
\* 'Battery' in it decides
parse_pmset(raw) ==
    IF raw = <<>> THEN get_battery_info_fallback
    ELSE IF pmset_has_battery(Head(raw)) THEN pmset_line(Head(raw))
    ELSE parse_pmset(Tail(raw))

\* subprocess.check_output raises for a missing or failing command, and
\* 'if result:' is false on empty output
get_battery_info_powershell(command, reading) ==
    IF command \in {"missing", "error"} THEN get_battery_info_fallback
    ELSE IF command = "output" THEN reading
    ELSE get_battery_info_fallback

\* with no device the for loop over Win32_Battery() ends without a return
get_battery_info_windows(wmi, command, reading) ==
    IF wmi = "ImportError" THEN get_battery_info_powershell(command, reading)
    ELSE IF wmi = "Exception" THEN get_battery_info_fallback
    ELSE IF wmi = "no_devices" THEN NoReading
    ELSE reading

get_battery_info_linux(command, reading) ==
    IF command \in {"missing", "error"} THEN get_battery_info_fallback
    ELSE IF command = "output" THEN reading
    ELSE get_battery_info_fallback

get_battery_info_macos(command, reading) ==
    IF command \in {"missing", "error"} THEN get_battery_info_fallback
    ELSE IF command = "output" THEN reading
    ELSE get_battery_info_fallback

get_battery_info(wmi, command, reading) ==
    IF CURRENT_OS = "Windows" THEN get_battery_info_windows(wmi, command, reading)
    ELSE IF CURRENT_OS = "Linux" THEN get_battery_info_linux(command, reading)
    ELSE IF CURRENT_OS = "Darwin" THEN get_battery_info_macos(command, reading)
    ELSE get_battery_info_fallback

\* try: body / except classes: the exception that leaves the statement
try_except(body, classes) ==
    IF body # "ok" /\ (body \in classes \/ "Exception" \in classes) THEN "ok" ELSE body

_show_linux_notification(outcome) ==
    try_except(try_except(outcome, {"FileNotFoundError", "TimeoutExpired"}), {"Exception"})

_show_windows_notification(outcome) ==
    try_except(try_except(outcome, {"Exception"}), {"Exception"})

_show_macos_notification(outcome) ==
    try_except(try_except(outcome, {"FileNotFoundError", "TimeoutExpired"}), {"Exception"})

\* the platform-specific enhancement of show_desktop_notification: whether a
\* platform notifier is called on this host, and the exception it lets out
platform_notification ==
    IF CURRENT_OS = "Linux" THEN [called |-> TRUE, result |-> _show_linux_notification(notifier)]
    ELSE IF CURRENT_OS = "Windows"
    THEN [called |-> TRUE, result |-> _show_windows_notification(notifier)]
    ELSE IF CURRENT_OS = "Darwin"
    THEN [called |-> TRUE, result |-> _show_macos_notification(notifier)]
    ELSE [called |-> FALSE, result |-> "ok"]

\* notification_sinks without the try around its body
notification_sinks_no_try(note) ==
    IF tray # "ok" THEN [sinks |-> <<"tray">>, raised |-> tray]
    ELSE [sinks |-> IF platform_notification.called
                    THEN <<"tray", "notifier">> ELSE <<"tray">>,
          raised |-> platform_notification.result]

\* show_desktop_notification past its notifications_enabled test: the sinks
\* it calls for one notification, in order, and the exception it lets out
notification_sinks(note) ==
    IF tray # "ok" THEN [sinks |-> <<"tray">>, raised |-> try_except(tray, {"Exception"})]
    ELSE [sinks |-> IF platform_notification.called
                    THEN <<"tray", "notifier">> ELSE <<"tray">>,
          raised |-> try_except(platform_notification.result, {"Exception"})]

RECURSIVE sinks_called(_)
\* the sink calls of every notification that passed the test, in order
sinks_called(notes) ==
    IF notes = <<>> THEN <<>>
    ELSE notification_sinks(Head(notes)).sinks \o sinks_called(Tail(notes))

\* an exception of show_desktop_notification reaches the caller of
\* update_battery from check_milestone_notifications only: the wake-up
\* notification is shown inside show_wake_up_notification's own try
dispatch_raised(notes) ==
    \E n \in Range(MilestoneNotes(notes)) : notification_sinks(n).raised # "ok"

\* the tick on a reading of None: the sleep detection has run, then
\* info['percentage'] raises TypeError out of the handler
update_battery_no_reading(time_gap, wake_info) ==
    LET m0 == [last_milestone_triggered |-> last_milestone_triggered,
               last_charging_milestone |-> last_charging_milestone,
               notifications |-> <<>>,
               beeps |-> <<>>]
        m1 == IF woke_up(time_gap) THEN show_wake_up_notification(wake_info, m0) ELSE m0
    IN /\ was_asleep' = was_asleep_after(time_gap)
       /\ notifications' = m1.notifications
       /\ beeps' = m1.beeps
       /\ info' = NoReading
       /\ gap' = time_gap
       /\ wake_seen' = IF woke_up(time_gap) THEN wake_info ELSE NoInfo
       /\ milestone_beeped' = 0
       /\ drop_beeped' = 0
       /\ sinks' = sinks_called(m1.notifications)
       /\ raised' = TRUE
       /\ painted' = "none"
       /\ pulsed' = "no"
       /\ UNCHANGED <<host_vars, profile_vars, initialize_milestone_tracking,
                      last_milestone_triggered, last_charging_milestone,
                      last_seen_percent, pulse_timer, pulse_opacity, pulse_direction,
                      pulse_timers_running, started, observer_vars, outside_vars>>

\* the stages of the handler in program order, each evaluated once:
\* m1 after the sleep detection, m2 after the seeding, p after the pulse
\* handling, m3 after check_milestone_notifications, m4 after the drop beep
update_battery_reading(time_gap, wake_info, reading) ==
    LET percentage == reading.percentage
        charging == is_charging(reading.state)
        m0 == [last_milestone_triggered |-> last_milestone_triggered,
               last_charging_milestone |-> last_charging_milestone,
               notifications |-> <<>>,
               beeps |-> <<>>]
        m1 == IF woke_up(time_gap) THEN show_wake_up_notification(wake_info, m0) ELSE m0
    IN \E m2 \in {seed_milestone_tracking(percentage, charging, m1)} :
       \E p \in {handle_pulse(percentage, charging,
                              [pulse_timer |-> pulse_timer,
                               running |-> pulse_timers_running,
                               pulse_opacity |-> pulse_opacity])} :
       \E m3 \in {check_milestone_notifications(percentage, charging, m2)} :
       \E m4 \in {drop_beep(percentage, charging, m3)} :
       /\ was_asleep' = was_asleep_after(time_gap)
       /\ initialize_milestone_tracking' = FALSE
       /\ last_milestone_triggered' = m4.last_milestone_triggered
       /\ last_charging_milestone' = m4.last_charging_milestone
       /\ pulse_timer' = p.pulse_timer
       /\ pulse_opacity' = p.pulse_opacity
       /\ pulse_timers_running' = p.running
       /\ pulsed' = "no"
       /\ painted' = IF ~timer_active(p.pulse_timer)
                     THEN create_battery_icon(percentage) ELSE "none"
       /\ last_seen_percent' = percentage
       /\ notifications' = m4.notifications
       /\ beeps' = m4.beeps
       /\ info' = reading
       /\ gap' = time_gap
       /\ wake_seen' = IF woke_up(time_gap) THEN wake_info ELSE NoInfo
       /\ milestone_beeped' = BeepAdded(m2, m3)
       /\ drop_beeped' = BeepAdded(m3, m4)
       /\ sinks' = sinks_called(m4.notifications)
       /\ raised' = dispatch_raised(m4.notifications)
       /\ watch_state' = watch_state_after(reading, m4.notifications)
       /\ replay' = replay_after(reading)
       /\ launch55' = launch55_after(reading)
       /\ recharge50' = recharge50_after(reading, m4.notifications)
       /\ UNCHANGED <<host_vars, profile_vars, pulse_direction, started, watch,
                      outside_vars>>

update_battery(time_gap, wake_info, reading) ==
    IF reading = NoReading
    THEN update_battery_no_reading(time_gap, wake_info)
    ELSE update_battery_reading(time_gap, wake_info, reading)

\* pulse_update beeping at either end of the fade
pulse_update_beep_at_both_ends(reading) ==
    LET opacity == pulse_opacity + pulse_direction IN
    /\ pulse_timers_running > 0
    /\ reading # NoReading
    /\ pulse_opacity' = IF opacity <= 3 THEN 3 ELSE IF opacity >= 10 THEN 10 ELSE opacity
    /\ pulse_direction' = IF opacity <= 3 THEN 3
                          ELSE IF opacity >= 10 THEN -3 ELSE pulse_direction
    /\ pulsed' = IF opacity <= 3 \/ opacity >= 10 THEN "beep" ELSE "silent"
    /\ painted' = create_battery_icon(reading.percentage)
    /\ UNCHANGED <<host_vars, profile_vars, initialize_milestone_tracking,
                   last_milestone_triggered, last_charging_milestone, last_seen_percent,
                   was_asleep, pulse_timer, pulse_timers_running, started,
                   notifications, beeps, info, gap, wake_seen, milestone_beeped,
                   drop_beeped, sinks, raised, observer_vars, outside_vars>>

\* the callback of the pulse timers, fired by any of them that is running:
\* one step of the fade in tenths (the floats of the code compare with 0.3
\* and 1.0 as the tenths do with 3 and 10), the beep of the branch that
\* reaches full opacity, and the icon repainted from a reading of its own
pulse_update(reading) ==
    LET opacity == pulse_opacity + pulse_direction IN
    /\ pulse_timers_running > 0
    /\ reading # NoReading
    /\ pulse_opacity' = IF opacity <= 3 THEN 3 ELSE IF opacity >= 10 THEN 10 ELSE opacity
    /\ pulse_direction' = IF opacity <= 3 THEN 3
                          ELSE IF opacity >= 10 THEN -3 ELSE pulse_direction
    /\ pulsed' = IF opacity > 3 /\ opacity >= 10 THEN "beep" ELSE "silent"
    /\ painted' = create_battery_icon(reading.percentage)
    /\ UNCHANGED <<host_vars, profile_vars, initialize_milestone_tracking,
                   last_milestone_triggered, last_charging_milestone, last_seen_percent,
                   was_asleep, pulse_timer, pulse_timers_running, started,
                   notifications, beeps, info, gap, wake_seen, milestone_beeped,
                   drop_beeped, sinks, raised, observer_vars, outside_vars>>

\* show_startup_notification, called once by __init__ after the first
\* update_battery; it queries the battery for its message, and a reading of
\* None raises inside its try before anything is shown
show_startup_notification(reading) ==
    /\ ~initialize_milestone_tracking
    /\ ~started
    /\ started' = TRUE
    /\ notifications' = IF reading = NoReading THEN <<>>
                        ELSE show_desktop_notification(<<>>, Note("startup", None, "info"))
    /\ sinks' = sinks_called(notifications')
    /\ raised' = FALSE
    /\ beeps' = <<>>
    /\ milestone_beeped' = 0
    /\ drop_beeped' = 0
    /\ painted' = "none"
    /\ pulsed' = "no"
    /\ UNCHANGED <<host_vars, profile_vars, initialize_milestone_tracking,
                   last_milestone_triggered, last_charging_milestone, last_seen_percent,
                   was_asleep, pulse_timer, pulse_opacity, pulse_direction,
                   pulse_timers_running, info, gap, wake_seen, observer_vars,
                   outside_vars>>

----------------------------------------------------------------------------
\* __init__ up to the first update_battery: the profile is the default one
\* (load_user_profile) with either value of the two notification flags

----------------------------------------------------------------------------
\* The user profile (load_user_profile, save_user_profile) and profile.json.
\* A profile is a record of the dict's keys; the file is missing, not
\* readable as a JSON object, or holds the JSON object of a dict.

VERSION == "0.5.11"

default_profile ==
    [milestone_thresholds |-> default_milestone_thresholds,
     charging_milestones |-> default_charging_milestones,
     notifications_enabled |-> TRUE,
     notification_timeout |-> 5000,
     play_sound |-> TRUE,
     sleep_notifications_enabled |-> TRUE,
     sleep_threshold |-> DefaultSleepThreshold,
     version |-> VERSION]

\* the keys whose values are Python bools
BoolKeys == {"notifications_enabled", "play_sound", "sleep_notifications_enabled"}

\* json.dump and json.load of a dict of lists of ints, ints, strings and
\* bools: True and False are written as the literals true and false
json_dump(profile) ==
    [k \in DOMAIN profile |->
        IF k \in BoolKeys THEN (IF profile[k] THEN "true" ELSE "false") ELSE profile[k]]

json_load(content) ==
    [k \in DOMAIN content |->
        IF k \in BoolKeys THEN content[k] = "true" ELSE content[k]]

Missing == [kind |-> "missing"]

\* a file that json.load rejects, or whose JSON value is not an object
Invalid == [kind |-> "invalid"]

JsonFile(profile) == [kind |-> "json", content |-> json_dump(profile)]

\* the file after open(profile_path, 'w') and json.dump, when the directory
\* and the file can be written; an OSError leaves it as it was
written(file, profile, disk_ok) == IF disk_ok THEN JsonFile(profile) ELSE file

\* the defaults merged under the keys of the file
merge_defaults(profile, default) ==
    [k \in DOMAIN default \cup DOMAIN profile |->
        IF k \in DOMAIN profile THEN profile[k] ELSE default[k]]

\* load_user_profile: the profile it returns and the file it leaves
load_user_profile(file, disk_ok) ==
    IF file.kind = "json"
    THEN [profile |-> merge_defaults(json_load(file.content), default_profile),
          file |-> file]
    ELSE IF file.kind = "missing"
    THEN [profile |-> default_profile, file |-> written(file, default_profile, disk_ok)]
    ELSE [profile |-> default_profile, file |-> file]

\* save_user_profile: the dict after update() and the file
save_user_profile(file, disk_ok) ==
    LET updated == [user_profile EXCEPT
                        !.milestone_thresholds = milestone_thresholds,
                        !.charging_milestones = charging_milestones,
                        !.notifications_enabled = notifications_enabled,
                        !.version = VERSION]
    IN [user_profile |-> updated, file |-> written(file, updated, disk_ok)]

\* the monitor running on the profile it loaded, the editor not open
InitProfile ==
    /\ monitor = "running"
    /\ user_profile = [default_profile EXCEPT
                           !.notifications_enabled = notifications_enabled,
                           !.play_sound = play_sound]
    /\ profile_json = JsonFile(user_profile)
    /\ editor = "closed"
    /\ profile_data = << >>
    /\ widgets = << >>
    /\ save_result = "none"
    /\ sessions = 0
    /\ editor_wrote = "never"

\* PopupManager.__init__: no popup yet, no QApplication, no timer
InitPopupManager ==
    /\ popup_count = 0
    /\ closed_popups = 0
    /\ active_popups = <<>>
    /\ creation_timer = "None"
    /\ app = "None"

InitOutside == InitPopupManager /\ InitProfile

\* the fields __init__ sets to fixed values, and the outputs of a monitor
\* that has not ticked yet
InitTracking ==
    /\ initialize_milestone_tracking = TRUE
    /\ last_milestone_triggered = None
    /\ last_charging_milestone = None
    /\ last_seen_percent = None
    /\ was_asleep = FALSE
    /\ pulse_timer = None
    /\ pulse_opacity = 10
    /\ pulse_direction = -3
    /\ pulse_timers_running = 0
    /\ pulsed = "no"
    /\ notifications = <<>>
    /\ beeps = <<>>
    /\ info = NoInfo
    /\ gap = 0
    /\ wake_seen = NoInfo
    /\ milestone_beeped = 0
    /\ drop_beeped = 0
    /\ sinks = <<>>
    /\ raised = FALSE
    /\ started = FALSE
    /\ painted = "none"
    /\ watch_state = "idle"
    /\ replay = 0
    /\ launch55 = "no"
    /\ recharge50 = 0

InitMonitor ==
    /\ milestone_thresholds = default_milestone_thresholds
    /\ charging_milestones = default_charging_milestones
    /\ notifications_enabled \in BOOLEAN
    /\ play_sound \in BOOLEAN
    /\ sleep_notifications_enabled = TRUE
    /\ sleep_threshold = DefaultSleepThreshold
    /\ InitTracking
    /\ InitOutside

\* a Linux desktop whose tray icon and notify-send both work
InitHost ==
    /\ CURRENT_OS = "Linux"
    /\ tray = "ok"
    /\ notifier = "ok"
    /\ text = <<>>

Init == InitHost /\ InitMonitor /\ watch = None

\* the same start, with one discharge milestone followed by the observer
InitWatch ==
    /\ InitHost
    /\ InitMonitor
    /\ notifications_enabled
    /\ play_sound
    /\ watch \in Range(milestone_thresholds)

\* the percentages the battery reports in the milestone runs: the readings of
\* the launch and replay scenarios, and an even grid over 0..100
ScenarioPercents == {5, 45, 50, 55, 78, 79, 81, 92, 100}

GridPercents == {(100 * k) \div Grid : k \in 0..Grid}

Percents == ScenarioPercents \cup GridPercents

\* Full is reported at the top of the range; a failed query gives the
\* fallback reading, state 'Error (<OS>)' at 0%
Readings ==
    {[state |-> s, percentage |-> p] : s \in {"Charging", "Discharging"}, p \in Percents}
    \cup {[state |-> "Full", percentage |-> p] : p \in {92, 100}}
    \cup {[state |-> "Error", percentage |-> 0]}

\* the monitor ticking every TIMEOUT with no suspend in between
Tick == \E reading \in Readings : update_battery(TIMEOUT \div 1000, reading, reading)

Next == Tick

Spec == Init /\ [][Next]_vars

SpecWatch == InitWatch /\ [][Next]_vars

----------------------------------------------------------------------------
\* Properties of the milestone tracker

ThisTickCharging == is_charging(info'.state)

LastTickCharging == is_charging(info.state)

FirstTick == initialize_milestone_tracking

\* C1: a milestone notification is emitted only by a tick that crosses its
\* threshold: for a discharge notification of m the previous tick's percentage
\* was above m and this tick's is at or below m, for a charging notification
\* of m the previous tick's was below m and this tick's is at or above m.
\* Stated for the ticks that have a previous tick (C5 is about the first).
C1_FiresOnlyAtCrossing ==
    [][~FirstTick =>
       \A n \in Range(MilestoneNotes(notifications')) :
          /\ n.kind = "discharge" =>
                 last_seen_percent > n.milestone /\ info'.percentage <= n.milestone
          /\ n.kind = "charging" =>
                 last_seen_percent < n.milestone /\ info'.percentage >= n.milestone]_vars

\* C2: within one not-charging period (no tick in it sees charging) a
\* discharge milestone that has been notified is not notified again, wherever
\* the percentage goes in between.
C2_NoRepeatWhileDischarging ==
    [][(watch_state # "idle" /\ ~ThisTickCharging) =>
           watch \notin Notified("discharge", notifications')]_vars

\* the followed milestone was notified, the percentage rose above it and is
\* now at or below it again, all without a charging tick
C2_Witness ==
    /\ watch_state = "refell"
    /\ info.percentage <= watch
    /\ watch \notin Notified("discharge", notifications)

\* C3: a monitor started while discharging that reads 92, 81, 79, 78 notifies
\* nothing at 92, 81 and 78 and exactly the discharge milestone 80 at 79.
C3_ReplayNotifiesOnlyEighty ==
    notifications_enabled =>
        /\ replay \in {1, 2, 4} => MilestoneNotes(notifications) = <<>>
        /\ replay = 3 => MilestoneNotes(notifications) = <<Note("discharge", 80, "info")>>

C3_Witness ==
    /\ notifications_enabled
    /\ replay = 4
    /\ info.percentage = 78

\* C4: a launch at 55% while discharging seeds last_milestone_triggered to 60
\* and notifies nothing until the first later reading at or below 50, which
\* notifies the discharge milestone 50 (and only it).
C4_LaunchAt55 ==
    notifications_enabled =>
        /\ launch55 = "seeded" =>
               /\ last_milestone_triggered = 60
               /\ MilestoneNotes(notifications) = <<>>
        /\ launch55 = "crossed" =>
               MilestoneNotes(notifications) = <<Note("discharge", 50, "info")>>

\* C5: the first tick after process start emits no milestone notification,
\* whatever the starting percentage and state.
C5_FirstTickSilent ==
    [][FirstTick => MilestoneNotes(notifications') = <<>>]_vars

\* C6: a tick that sees charging after a tick that did not leaves the
\* discharge tracker last_milestone_triggered at None.
C6_DischargeTrackerCleared ==
    [][(notifications_enabled /\ info # NoInfo /\ ~LastTickCharging /\ ThisTickCharging) =>
           last_milestone_triggered' = None]_vars

\* C7: once last_milestone_triggered is set, a tick that does not see charging
\* leaves it set, on a discharge threshold, and never on a higher one: an
\* assignment that changes it gives a strictly lower threshold.
C7_DischargeTrackerOnlyDecreases ==
    [][(last_milestone_triggered # None /\ ~ThisTickCharging) =>
           /\ last_milestone_triggered' # None
           /\ last_milestone_triggered' \in Range(milestone_thresholds)
           /\ last_milestone_triggered' <= last_milestone_triggered]_vars

\* the tracker was seeded to 90 at 92% and has moved down to 80
C7_Witness ==
    /\ replay >= 3
    /\ last_milestone_triggered = 80
    /\ ~is_charging(info.state)

\* C8 as stated: the first tick that does not see charging after a tick that
\* did leaves the charging tracker last_charging_milestone at None.
C8_ChargingTrackerReset ==
    [][(LastTickCharging /\ ~ThisTickCharging) => last_charging_milestone' = None]_vars

\* the lowest charging milestone above the tracker (None is below them all)
\* that the percentage has reached, as a set of at most one element
NextChargingMilestone(tracker, percentage) ==
    LET open == {c \in Range(charging_milestones) :
                    c <= percentage /\ (tracker = None \/ tracker < c)}
    IN {c \in open : \A d \in open : c <= d}

\* C8 amended: with notifications enabled, every tick that does not see
\* charging leaves last_charging_milestone at None, and a later tick that sees
\* charging notifies the lowest charging milestone the percentage has reached
\* above the tracker, so a milestone notified in one charging session is
\* notified again in a later one.
C8_ChargingTrackerResetWhenEnabled ==
    [][notifications_enabled =>
           /\ ~ThisTickCharging => last_charging_milestone' = None
           /\ (ThisTickCharging /\ ~FirstTick) =>
                  Notified("charging", notifications') =
                      NextChargingMilestone(last_charging_milestone, info'.percentage)]_vars

\* charging milestone 50 was notified in one charging session and again in a
\* later one, with a not-charging tick in between
C8_Witness ==
    /\ recharge50 = 3
    /\ notifications_enabled
    /\ 50 \in Notified("charging", notifications)

\* C9: a tick that sees charging never lowers last_charging_milestone and
\* never resets it to None: an assignment that changes it gives a strictly
\* higher charging milestone.
C9_ChargingTrackerOnlyIncreases ==
    [][(last_charging_milestone # None /\ ThisTickCharging) =>
           /\ last_charging_milestone' # None
           /\ last_charging_milestone' \in Range(charging_milestones)
           /\ last_charging_milestone' >= last_charging_milestone]_vars

\* 50 was notified earlier in the running charging session and this tick
\* notifies 75
C9_Witness ==
    /\ recharge50 = 1
    /\ is_charging(info.state)
    /\ 75 \in Notified("charging", notifications)
    /\ last_charging_milestone = 75

\* C10: one tick emits at most one milestone notification.
C10_AtMostOnePerTick == Len(MilestoneNotes(notifications)) <= 1

\* a fall from 55% or more to 5% in one tick: every discharge threshold is at
\* or above the reading and one notification is emitted
C10_Witness ==
    /\ launch55 = "crossed"
    /\ info.percentage = 5
    /\ Len(MilestoneNotes(notifications)) = 1

----------------------------------------------------------------------------
\* The monitor across suspends: the time between two runs of update_battery
\* is the timer period or a gap around sleep_threshold.  __init__ sets
\* last_update_time right before the first run, whose gap is therefore 0.

Gaps == {TIMEOUT \div 1000, sleep_threshold - 1, sleep_threshold, sleep_threshold + 1}

SleepReadings ==
    {[state |-> s, percentage |-> p] : s \in {"Charging", "Discharging"}, p \in {5, 55}}

\* what show_wake_up_notification reads from the battery on resume
WakeReadings ==
    {[state |-> s, percentage |-> p] :
        s \in {"Charging", "Discharging", "Full", "Unknown"},
        p \in {5, 10, 11, 20, 21, 55}}

TickSleep ==
    \E time_gap \in (IF initialize_milestone_tracking THEN {0} ELSE Gaps) :
        \E reading \in SleepReadings :
            \E wake_info \in (IF woke_up(time_gap) THEN WakeReadings ELSE {reading}) :
                update_battery(time_gap, wake_info, reading)

SpecSleep == Init /\ [][TickSleep]_vars

----------------------------------------------------------------------------
\* Properties of the sleep / wake detector

WakeNotes(notes) == SelectSeq(notes, LAMBDA n : n.kind = "wake")

\* C11 as stated: with sleep and desktop notifications enabled, a tick whose
\* gap to the previous tick is above sleep_threshold emits exactly one wake-up
\* notification and a tick whose gap is below it emits none, whatever came
\* before.
C11_WakePerLongGap ==
    (sleep_notifications_enabled /\ notifications_enabled /\ info # NoInfo) =>
        /\ gap > sleep_threshold => Len(WakeNotes(notifications)) = 1
        /\ gap < sleep_threshold => Len(WakeNotes(notifications)) = 0

\* C11 amended: with sleep and desktop notifications enabled, a tick emits
\* exactly one wake-up notification when its gap is above sleep_threshold and
\* the previous tick left was_asleep false, and none otherwise (a gap at or
\* below the threshold, or a long gap right after a tick that followed one).
C11_WakePerLongGapUnlessAsleep ==
    [][(sleep_notifications_enabled /\ notifications_enabled) =>
           Len(WakeNotes(notifications')) =
               IF gap' > sleep_threshold /\ ~was_asleep THEN 1 ELSE 0]_vars

C11_Witness ==
    /\ notifications_enabled
    /\ gap = sleep_threshold + 1
    /\ was_asleep
    /\ Len(WakeNotes(notifications)) = 1

\* the severity C12 gives a wake-up notification for the reading taken on
\* resume
C12_Severity(reading) ==
    LET not_charging == reading.state \notin {"Charging", "Full"} IN
    IF reading.percentage <= 10 /\ not_charging THEN "critical"
    ELSE IF reading.percentage <= 20 /\ not_charging THEN "warning"
    ELSE "info"

\* C12: the wake-up notification is 'critical' at 10% or less when not
\* charging, 'warning' from 11% to 20% when not charging, 'info' otherwise.
C12_WakeSeverity ==
    \A n \in Range(WakeNotes(notifications)) : n.type = C12_Severity(wake_seen)

----------------------------------------------------------------------------
\* Properties of the alert policy

\* the pulse timer C13 asks for after a tick with this reading
C13_Policy(reading) ==
    IF is_charging(reading.state) THEN None
    ELSE IF reading.percentage < 30 THEN 300
    ELSE IF reading.percentage < 50 THEN 600
    ELSE None

\* C13: after every tick the pulse timer is the one the policy gives for the
\* tick's reading: none when charging or at 50% and above, 300 ms below 30%,
\* 600 ms from 30% to 49%.
C13_PulseMatchesPolicy == info # NoInfo => pulse_timer = C13_Policy(info)

\* the battery as the drop-beep runs see it: the percentages of the three
\* examples and the two tier boundaries, in every state
DropReadings ==
    {[state |-> s, percentage |-> p] :
        s \in {"Charging", "Discharging", "Full", "Unknown"},
        p \in {29, 30, 31, 44, 50, 55, 76, 80}}

TickDrop == \E reading \in DropReadings : update_battery(TIMEOUT \div 1000, reading, reading)

SpecDrop == Init /\ [][TickDrop]_vars

\* the drop beep C14 gives for a fall from prev to the reading
C14_DropBeeps(prev, reading) ==
    LET d == prev - reading.percentage
        not_charging == ~is_charging(reading.state)
    IN IF prev = None THEN 0
       ELSE IF not_charging /\ d >= 1 /\ reading.percentage < 30 THEN 2
       ELSE IF not_charging /\ d >= 1 /\ reading.percentage >= 30
                                      /\ reading.percentage < 50 THEN 1
       ELSE 0

\* C14: a tick plays the double drop beep iff it is not charging, the
\* percentage fell by at least 1 since the previous tick and is below 30, the
\* single one iff it fell to 30..49, none otherwise (none on the first tick);
\* last_seen_percent is the tick's percentage after every tick.
C14_DropBeep ==
    [][/\ drop_beeped' = C14_DropBeeps(last_seen_percent, info')
       /\ last_seen_percent' = info'.percentage]_vars

\* a fall to 29% played the double beep
C14_Witness ==
    /\ info = [state |-> "Discharging", percentage |-> 29]
    /\ drop_beeped = 2

\* the severity and beep count C15 gives a notified milestone
C15_Type(n) ==
    IF n.kind = "charging" THEN "info"
    ELSE IF n.milestone <= 10 THEN "critical"
    ELSE IF n.milestone <= 30 THEN "warning"
    ELSE "info"

C15_Beeps(n) ==
    IF n.kind = "charging" THEN 1
    ELSE IF n.milestone <= 10 THEN 3
    ELSE IF n.milestone <= 20 THEN 2
    ELSE 1

\* C15: a notified discharge milestone m is critical with 3 beeps for m <= 10,
\* warning with 2 beeps for 10 < m <= 20, warning with 1 beep for
\* 20 < m <= 30, info with 1 beep above 30; a charging milestone is info with
\* 1 beep; the beeps are played only when play_sound is true.
C15_SeverityAndBeeps ==
    /\ \A n \in Range(MilestoneNotes(notifications)) :
           /\ n.type = C15_Type(n)
           /\ milestone_beeped = IF play_sound THEN C15_Beeps(n) ELSE 0
    /\ MilestoneNotes(notifications) = <<>> => milestone_beeped = 0

C15_Witness ==
    /\ play_sound
    /\ MilestoneNotes(notifications) = <<Note("discharge", 10, "critical")>>
    /\ milestone_beeped = 3

----------------------------------------------------------------------------
\* Properties of the notification dispatcher

\* any host, with a tray icon and a platform notifier that work or fail
InitDispatch ==
    /\ CURRENT_OS \in Hosts
    /\ tray \in {"ok", "Exception"}
    /\ notifier \in {"ok"} \cup Failures
    /\ text = <<>>
    /\ InitMonitor
    /\ watch = None

DispatchReadings ==
    {[state |-> s, percentage |-> p] : s \in {"Charging", "Discharging"}, p \in {45, 55}}

\* timer ticks start once __init__ has shown the startup notification
TickDispatch ==
    /\ initialize_milestone_tracking \/ started
    /\ \E time_gap \in (IF initialize_milestone_tracking
                        THEN {0} ELSE {TIMEOUT \div 1000, sleep_threshold + 1}) :
           \E reading \in DispatchReadings : update_battery(time_gap, reading, reading)

Startup == \E reading \in DispatchReadings : show_startup_notification(reading)

NextDispatch == TickDispatch \/ Startup

SpecDispatch == InitDispatch /\ [][NextDispatch]_vars

\* C16: with notifications_enabled false no handler (tick with its milestone
\* and wake-up notifications, startup) calls a notification sink; with it
\* true every notification calls the tray toast first and the platform
\* notifier only after it; no failure of a sink raises out of the handler.
C16_Dispatch ==
    /\ ~notifications_enabled => sinks = <<>>
    /\ notifications_enabled =>
           /\ notifications # <<>> => (sinks # <<>> /\ sinks[1] = "tray")
           /\ \A i \in DOMAIN sinks :
                  sinks[i] = "notifier" => (i > 1 /\ sinks[i - 1] = "tray")
    /\ ~raised

\* a wake-up and a milestone notification in one tick, on a host whose
\* platform notifier fails: both went to the toast, then to the notifier
C16_Witness ==
    /\ notifications_enabled
    /\ notifier = "Exception"
    /\ Len(notifications) = 2
    /\ sinks = <<"tray", "notifier", "tray", "notifier">>
    /\ ~raised

----------------------------------------------------------------------------
\* Properties of the charging predicate and of the tiers

\* C17: the handler's is_charging is true exactly when the reading's state is
\* Charging or Full.
C17_ChargingOrFull ==
    info # NoInfo => (is_charging(info.state) <=> info.state \in {"Charging", "Full"})

\* every percentage around the tier boundaries and at the ends of the range
TierReadings ==
    {[state |-> s, percentage |-> p] :
        s \in {"Charging", "Discharging"},
        p \in {0, 29, 30, 31, 49, 50, 51, 74, 75, 76, 100}}

TickTier == \E reading \in TierReadings : update_battery(TIMEOUT \div 1000, reading, reading)

PulseTier == \E reading \in TierReadings : pulse_update(reading)

NextTier == TickTier \/ PulseTier

SpecTier == Init /\ [][NextTier]_vars

\* the tiers, most severe first
Severity(tier) ==
    IF tier = "Red" THEN 3 ELSE IF tier = "Orange" THEN 2 ELSE IF tier = "Yellow" THEN 1 ELSE 0

\* the tier C18 gives a percentage
C18_Tier(p) ==
    IF p >= 75 THEN "Green"
    ELSE IF 50 <= p /\ p < 75 THEN "Yellow"
    ELSE IF 30 <= p /\ p < 50 THEN "Orange"
    ELSE "Red"

\* the classification as a function on the whole range: on every percentage
\* of 0..100 the icon colour is the tier of the table, and the next percentage
\* up is never more severe
TierTable ==
    \A p \in 0..100 :
        /\ create_battery_icon(p) = C18_Tier(p)
        /\ p < 100 => Severity(create_battery_icon(p + 1)) <= Severity(create_battery_icon(p))

\* C18: the classification is total on 0..100 with the boundaries 30, 50 and
\* 75 and monotonic, a handler that paints the icon paints its reading's
\* tier, and the pulse and the drop beep draw the tiers where the icon colour
\* does: a pulse timer is started at 300 ms exactly in Red and at 600 ms
\* exactly in Orange and never runs on in Yellow or Green, the drop beep is
\* double exactly in Red and single exactly in Orange.
C18_SameBoundaries ==
    [][info' # info \/ gap' # gap \/ notifications' # notifications
       \/ last_seen_percent' # last_seen_percent \/ pulse_timer' # pulse_timer =>
       LET tier == create_battery_icon(info'.percentage) IN
       /\ TierTable
       /\ painted' # "none" => painted' = C18_Tier(info'.percentage)
       /\ (pulse_timer = None /\ pulse_timer' # None) =>
              pulse_timer' = IF tier = "Red" THEN 300 ELSE 600
       /\ (pulse_timer = None /\ ~is_charging(info'.state) /\ tier \in {"Red", "Orange"}) =>
              pulse_timer' # None
       /\ tier \in {"Yellow", "Green"} => pulse_timer' = None
       /\ drop_beeped' = 2 => tier = "Red"
       /\ drop_beeped' = 1 => tier = "Orange"
       /\ (~is_charging(info'.state) /\ last_seen_percent # None
             /\ last_seen_percent > info'.percentage) =>
              drop_beeped' = IF tier = "Red" THEN 2 ELSE IF tier = "Orange" THEN 1 ELSE 0]_vars

C18_Witness ==
    /\ info = [state |-> "Discharging", percentage |-> 30]
    /\ painted = "Orange"
    /\ drop_beeped = 1

----------------------------------------------------------------------------
\* Properties of the battery query

InitQuery ==
    /\ CURRENT_OS \in Hosts
    /\ tray = "ok"
    /\ notifier = "ok"
    /\ text = <<>>
    /\ InitMonitor
    /\ watch = None

QueryReadings ==
    {[state |-> "Discharging", percentage |-> 45], [state |-> "Charging", percentage |-> 55]}

\* a tick whose queries (the wake-up notification's and the handler's own)
\* meet the same provider outcome
TickQuery ==
    \E time_gap \in (IF initialize_milestone_tracking
                     THEN {0} ELSE {TIMEOUT \div 1000, sleep_threshold + 1}) :
        \E wmi \in Wmi, command \in Commands, reading \in QueryReadings :
            update_battery(time_gap, get_battery_info(wmi, command, reading),
                           get_battery_info(wmi, command, reading))

SpecQuery == InitQuery /\ [][TickQuery]_vars

\* C20: whatever the provider did, the tick took a reading record and did not
\* raise.
C20_QueryNeverFatal == info # NoReading /\ ~raised

----------------------------------------------------------------------------
\* Properties of the reading normalizer

\* the most lines a text has
MaxLines == 2

\* the lines acpi output is drawn from
AcpiLines ==
    { <<>>,
      << <<<<"junk">>>> >>,
      << <<<<"100%">>>> >>,
      << <<<<"Battery", "0">>>> >>,
      << <<<<"Battery", "0">>, <<"Discharging">>>> >>,
      << <<<<"Battery", "0">>, <<"Charging", "45%">>>> >>,
      << <<<<"Battery", "0">>, <<"Discharging", "45%", "02:30">>>> >>,
      << <<<<"Battery", "0">>, <<"Full">>>>, <<<<"100%">>>> >>,
      << <<<<"Battery", "0">>, <<"Not charging">>>>, <<<<"100%">>>> >>,
      << <<<<"Battery", "0">>, <<"Discharging">>>>, <<<<"junk">>>> >>,
      << <<<<"Battery", "0">>>>, <<<<"45%">>>> >>,
      << <<<<"Battery", "0">>, <<"Charging">>>>, <<<<"150%">>>> >>,
      << <<<<"Battery", "0">>, <<"Charging", "150%">>>> >>,
      << <<<<"Battery", "0">>, <<"Discharging">>>>, <<<<"45%">>>>,
         <<<<"02:30:00", "remaining">>>> >> }

Texts == UNION {[1..n -> AcpiLines] : n \in 0..MaxLines}

\* a Linux host whose acpi prints one of the texts
InitParse ==
    /\ CURRENT_OS = "Linux"
    /\ tray = "ok"
    /\ notifier = "ok"
    /\ text \in Texts
    /\ InitMonitor
    /\ watch = None

\* a tick on the reading get_battery_info_linux makes of the text
TickParse ==
    \E reading \in {get_battery_info_linux(IF text = <<>> THEN "empty" ELSE "output",
                                           parse_acpi(text))} :
        update_battery(TIMEOUT \div 1000, reading, reading)

SpecParse == InitParse /\ [][TickParse]_vars

\* no line of the text has both the 'Battery' keyword and a percentage
Malformed(raw) ==
    \A i \in DOMAIN raw :
        ~(has_battery(raw[i]) /\ search_percent(LineWords(raw[i])) # None)

\* C19: the reading taken from malformed text (empty, without the 'Battery'
\* keyword, or with 'Battery' lines that hold no percentage) is
\* {Unknown, 0, None}.
C19_MalformedIsUnknown ==
    (info # NoInfo /\ Malformed(text)) =>
        info = [state |-> "Unknown", percentage |-> 0, time |-> NoTime]

\* C23: every reading the normalizer produces, and so every reading the tick
\* handler sees, has its percentage within 0..100.
C23_PercentageClamped == info # NoInfo => info.percentage \in 0..100

----------------------------------------------------------------------------
\* The fallback reading in the tick handler

\* C28: on the fallback reading the handler computes is_charging = false and
\* evaluates the discharge branch of the milestone tracker, which leaves
\* last_charging_milestone at None.
C28_FallbackNotCharging ==
    info.state = "Error" =>
        /\ ~is_charging(info.state)
        /\ last_charging_milestone = None

----------------------------------------------------------------------------
\* Properties of the pmset parser

\* the lines pmset output is drawn from: the two headers, and the battery
\* line in its states
PmsetLines ==
    { [head |-> <<>>, parts |-> << <<"Now", "drawing", "from", "'AC", "Power'">> >>],
      [head |-> <<>>, parts |-> << <<"Now", "drawing", "from", "'Battery", "Power'">> >>],
      [head |-> <<"-InternalBattery-0", "(id=1)">>,
       parts |-> << <<"45%">>, <<"discharging">>, <<"2:30", "remaining", "present:", "true">> >>],
      [head |-> <<"-InternalBattery-0", "(id=1)">>,
       parts |-> << <<"45%">>, <<"charging">>, <<"2:30", "remaining", "present:", "true">> >>],
      [head |-> <<"-InternalBattery-0", "(id=1)">>,
       parts |-> << <<"100%">>, <<"charged">>, <<"0:00", "remaining", "present:", "true">> >>],
      [head |-> <<"-InternalBattery-0", "(id=1)">>,
       parts |-> << <<"45%">>, <<"AC", "attached">>, <<"not", "charging", "present:", "true">> >>] }

PmsetTexts == UNION {[1..n -> PmsetLines] : n \in 0..MaxLines}

\* a macOS host whose pmset prints one of the texts
InitPmset ==
    /\ CURRENT_OS = "Darwin"
    /\ tray = "ok"
    /\ notifier = "ok"
    /\ text \in PmsetTexts
    /\ InitMonitor
    /\ watch = None

\* a tick on the reading get_battery_info_macos makes of the text
TickPmset ==
    \E reading \in {get_battery_info_macos("output", parse_pmset(text))} :
        update_battery(TIMEOUT \div 1000, reading, reading)

SpecPmset == InitPmset /\ [][TickPmset]_vars

\* the line the parser reads reports a discharging battery
ReportsDischarging(raw) ==
    \E i \in DOMAIN raw :
        /\ \E w \in Range(PartWords(raw[i])) : w = "discharging"
        /\ \A j \in 1..(i - 1) : ~pmset_has_battery(raw[j])

\* C24: raw text that reports a discharging battery is never normalized to
\* state Charging.
C24_DischargingNeverCharging ==
    (info # NoInfo /\ ReportsDischarging(text)) => info.state # "Charging"

----------------------------------------------------------------------------
\* C25: the fade and its beep.  Over every run of battery ticks and pulse
\* ticks (the battery ticks start and stop the animation) pulse_opacity stays
\* within 0.3..1.0; a pulse tick moves it by the 0.3 of pulse_direction,
\* clamped at the two bounds, and nothing else changes the direction; a pulse
\* tick beeps only when the fade was rising and the tick puts the opacity at
\* 1.0 and turns the direction to fade-out, so never at the 0.3 floor, never
\* while fading out, and never on the pulse tick that follows a beeping one.

Clamp(opacity) == IF opacity <= 3 THEN 3 ELSE IF opacity >= 10 THEN 10 ELSE opacity

C25_PulseBeepAtPeak ==
    [][/\ pulse_opacity' \in 3..10
       /\ pulse_direction' \in {-3, 3}
       /\ pulsed' # "no" => pulse_opacity' = Clamp(pulse_opacity + pulse_direction)
       /\ pulsed' = "no" => pulse_direction' = pulse_direction
       /\ pulsed' = "beep" =>
              /\ pulse_direction = 3
              /\ pulse_opacity' = 10
              /\ pulse_direction' = -3
       /\ (pulsed = "beep" /\ pulsed' # "no") => pulsed' = "silent"]_vars

\* a pulse tick has beeped at the top of a fade that went down to the floor
\* and up again
C25_Witness == pulsed = "beep" /\ pulse_opacity = 10 /\ pulse_direction = -3

----------------------------------------------------------------------------
\* C26: at most one pulse timer runs.  After every battery tick and pulse
\* tick at most one QTimer connected to pulse_update is running, the monitor
\* holds a handle exactly when one is running (no running timer without a
\* handle, no handle of a stopped timer), and a pulse callback fires only
\* while the monitor holds a timer, so none after the tick that stopped the
\* pulsing.

C26_OnePulseTimer ==
    [][/\ pulse_timers_running' \in {0, 1}
       /\ pulse_timer' = None <=> pulse_timers_running' = 0
       /\ pulsed' # "no" => pulse_timer # None]_vars

\* the animation was stopped while the fade was rising: a timer ran, its
\* callback fired down to the floor, and a battery tick stopped it
C26_Witness == pulse_timer = None /\ pulse_timers_running = 0 /\ pulse_direction = 3

----------------------------------------------------------------------------
\* The popup test program (battery_popup.py).  PopupManager.start shows a
\* popup and starts the creation timer; every popup carries a single-shot
\* auto-close timer and a periodic countdown timer; closing a popup runs its
\* closeEvent, which stops both timers and tells the manager.

max_popups == 3

\* seconds_left of a new popup
AutoCloseSeconds == 10

\* the countdown ticks followed per popup
MaxCountdown == 2

\* BatteryPopup.__init__ (start_auto_close_timer at its end) and show();
\* closed_by records what closed the popup
BatteryPopup(popup_number) ==
    [popup_number |-> popup_number,
     user_clicked |-> FALSE,
     visible |-> TRUE,
     auto_close_timer |-> "active",
     countdown_timer |-> "active",
     seconds_left |-> AutoCloseSeconds,
     closed_by |-> "None"]

\* the popup's own part of closeEvent: both timers stopped, the window hidden
closeEvent(popup, cause) ==
    [popup EXCEPT !.auto_close_timer = "inactive",
                  !.countdown_timer = "inactive",
                  !.visible = FALSE,
                  !.closed_by = cause]

\* QApplication.quit from inside a closeEvent: the event loop ends.  Whether
\* the windows still on screen are sent a close event first is the toolkit's
\* doing and not this program's, so either happens; their closeEvent calls
\* on_popup_closed, whose further quit changes nothing.
app_quit(m, closes_windows) ==
    IF closes_windows
    THEN LET open == {j \in DOMAIN m.active_popups : m.active_popups[j].visible}
         IN [active_popups |->
                 [j \in DOMAIN m.active_popups |->
                     IF j \in open THEN closeEvent(m.active_popups[j], "quit")
                     ELSE m.active_popups[j]],
             closed_popups |-> m.closed_popups + Cardinality(open),
             app |-> "quit"]
    ELSE [m EXCEPT !.app = "quit"]

\* on_popup_closed
on_popup_closed(m, popup_number, closes_windows) ==
    LET counted == [m EXCEPT !.closed_popups = @ + 1]
    IN IF popup_number = max_popups THEN app_quit(counted, closes_windows)
       ELSE IF counted.closed_popups >= max_popups THEN app_quit(counted, closes_windows)
       ELSE counted

\* QWidget.close on popup i: closeEvent, then the manager's on_popup_closed
close(i, cause, closes_windows) ==
    LET m == [active_popups |-> [active_popups EXCEPT ![i] = closeEvent(@, cause)],
              closed_popups |-> closed_popups,
              app |-> app]
    IN \E after \in {on_popup_closed(m, active_popups[i].popup_number, closes_windows)} :
       /\ active_popups' = after.active_popups
       /\ closed_popups' = after.closed_popups
       /\ app' = after.app

\* create_popup: nothing but stopping the timer once max_popups exist
create_popup(timer) ==
    IF popup_count >= max_popups
    THEN /\ creation_timer' = IF timer # "None" THEN "inactive" ELSE timer
         /\ UNCHANGED <<popup_count, active_popups>>
    ELSE /\ popup_count' = popup_count + 1
         /\ active_popups' = Append(active_popups, BatteryPopup(popup_count + 1))
         /\ creation_timer' = IF popup_count + 1 >= max_popups /\ timer # "None"
                              THEN "inactive" ELSE timer

\* PopupManager.start up to app.exec(): the first popup at once, the timer
\* started for the others
start ==
    /\ app = "None"
    /\ app' = "exec"
    /\ popup_count' = popup_count + 1
    /\ active_popups' = Append(active_popups, BatteryPopup(popup_count + 1))
    /\ creation_timer' = IF popup_count + 1 < max_popups THEN "active" ELSE "inactive"
    /\ UNCHANGED <<closed_popups, battmon_vars,
                   file_vars, editor_vars>>

\* a tick of the creation timer
creation_tick ==
    /\ app = "exec"
    /\ creation_timer = "active"
    /\ create_popup(creation_timer)
    /\ UNCHANGED <<closed_popups, app, battmon_vars,
                   file_vars, editor_vars>>

\* a tick of popup i's countdown timer
update_countdown(i) ==
    /\ app = "exec"
    /\ i \in DOMAIN active_popups
    /\ active_popups[i].countdown_timer = "active"
    /\ AutoCloseSeconds - active_popups[i].seconds_left < MaxCountdown
    /\ active_popups' = [active_popups EXCEPT ![i].seconds_left =
                             IF active_popups[i].user_clicked THEN @ ELSE @ - 1]
    /\ UNCHANGED <<popup_count, closed_popups, creation_timer, app, battmon_vars,
                   file_vars, editor_vars>>

\* the timeout of popup i's single-shot auto-close timer
auto_close(i) ==
    /\ app = "exec"
    /\ i \in DOMAIN active_popups
    /\ active_popups[i].auto_close_timer = "active"
    /\ IF active_popups[i].user_clicked
       THEN /\ active_popups' = [active_popups EXCEPT ![i].auto_close_timer = "inactive"]
            /\ UNCHANGED <<closed_popups, app>>
       ELSE \E closes_windows \in BOOLEAN : close(i, "auto_close", closes_windows)
    /\ UNCHANGED <<popup_count, creation_timer, battmon_vars,
                   file_vars, editor_vars>>

\* the user clicks popup i, which is on screen
mousePressEvent(i) ==
    /\ app = "exec"
    /\ i \in DOMAIN active_popups
    /\ active_popups[i].visible
    /\ \E closes_windows \in BOOLEAN : close(i, "click", closes_windows)
    /\ UNCHANGED <<popup_count, creation_timer, battmon_vars,
                   file_vars, editor_vars>>

NextPopup ==
    \/ start
    \/ creation_tick
    \/ \E i \in 1..max_popups : update_countdown(i)
    \/ \E i \in 1..max_popups : auto_close(i)
    \/ \E i \in 1..max_popups : mousePressEvent(i)

\* the event loop runs every timer that is due: start returns into exec(),
\* the creation timer and each auto-close timer fire while they are active;
\* the user may never click
SpecPopup ==
    /\ Init
    /\ [][NextPopup]_vars
    /\ WF_vars(start)
    /\ WF_vars(creation_tick)
    /\ \A i \in 1..max_popups : WF_vars(auto_close(i))

\* C30: the run of PopupManager.  Never more than max_popups popups are
\* created; every popup that is created eventually closes, by its auto-close
\* timer or by a click of the user, and has both its timers stopped from then
\* on; the application eventually quits, and it has quit only when the popup
\* numbered max_popups has closed; under every interleaving of creation ticks,
\* auto-close timeouts, countdown ticks and clicks.

Closed(i) ==
    /\ i \in DOMAIN active_popups
    /\ active_popups[i].closed_by \in {"auto_close", "click"}
    /\ active_popups[i].auto_close_timer = "inactive"
    /\ active_popups[i].countdown_timer = "inactive"

C30_PopupsCloseThenQuit ==
    /\ [](popup_count <= max_popups /\ Len(active_popups) = popup_count)
    /\ \A i \in 1..max_popups : [](i \in DOMAIN active_popups => <>[]Closed(i))
    /\ <>(app = "quit")
    /\ [](app = "quit" => max_popups \in DOMAIN active_popups
                          /\ ~active_popups[max_popups].visible)

----------------------------------------------------------------------------
\* The Profile Editor (profile_editor.py) and the monitor's start and quit,
\* working on the same profile.json.

EditorVersion == "0.5.12"

\* the editor dialogs opened in a run
MaxSessions == 1

get_default_profile == [default_profile EXCEPT !.version = EditorVersion]

\* profile.get(key, default)
Get(profile, key, default) == IF key \in DOMAIN profile THEN profile[key] ELSE default

\* A threshold field is the sequence of the pieces x.strip() of
\* text.split(','); a piece is told by what str.isdigit and int make of it.
\* str(v) is the decimal text of an int
str(v) == [isdigit |-> v >= 0, parses |-> TRUE, value |-> v]

\* a piece that is no digit string: 'abc', '-5', '7.5' or nothing at all
Word == [isdigit |-> FALSE, parses |-> FALSE, value |-> None]

\* a piece such as a superscript two: isdigit() is true, int() raises ValueError
Superscript == [isdigit |-> TRUE, parses |-> FALSE, value |-> None]

\* ', '.join(map(str, values)), split again at the commas
join(values) ==
    IF values = <<>> THEN <<Word>> ELSE [i \in DOMAIN values |-> str(values[i])]

\* the elements of s in order, each once
RECURSIVE Distinct(_)
Distinct(s) ==
    IF s = <<>> THEN <<>>
    ELSE LET front == Distinct(SubSeq(s, 1, Len(s) - 1))
         IN IF s[Len(s)] \in Range(front) THEN front ELSE Append(front, s[Len(s)])

\* parse_threshold_list keeping the integers above 100
parse_threshold_list_no_range(field) ==
    LET digits == SelectSeq(field, LAMBDA x : x.isdigit)
    IN IF \E i \in DOMAIN digits : ~digits[i].parses THEN <<>>
       ELSE SortedReverse(Distinct([i \in DOMAIN digits |-> digits[i].value]))

\* parse_threshold_list: the digit pieces as ints, those of 0..100 kept,
\* each once, in descending order; [] when int() raises
parse_threshold_list(field) ==
    LET digits == SelectSeq(field, LAMBDA x : x.isdigit)
    IN IF \E i \in DOMAIN digits : ~digits[i].parses THEN <<>>
       ELSE LET values == [i \in DOMAIN digits |-> digits[i].value]
            IN SortedReverse(Distinct(SelectSeq(values, LAMBDA v : 0 <= v /\ v <= 100)))

\* QSpinBox.setValue within setRange(low, high)
setValue(value, low, high) ==
    IF value < low THEN low ELSE IF value > high THEN high ELSE value

\* load_profile: the dict of the file, the defaults when there is no file or
\* reading it raised
load_profile(file) ==
    IF file.kind = "json" THEN json_load(file.content) ELSE get_default_profile

update_ui_from_profile(profile) ==
    [notifications_enabled |-> Get(profile, "notifications_enabled", TRUE),
     play_sound |-> Get(profile, "play_sound", TRUE),
     notification_timeout |->
         setValue(Get(profile, "notification_timeout", 5000), 1000, 30000),
     sleep_notifications_enabled |-> Get(profile, "sleep_notifications_enabled", TRUE),
     sleep_threshold |->
         setValue(Get(profile, "sleep_threshold", DefaultSleepThreshold), 60, 3600),
     milestone_thresholds |->
         join(Get(profile, "milestone_thresholds", default_milestone_thresholds)),
     charging_milestones |->
         join(Get(profile, "charging_milestones", default_charging_milestones))]

\* validate_settings: the fields it finds fault with
validate_settings(w) ==
    {e \in {"discharge", "charging", "timeout", "sleep"} :
        \/ e = "discharge" /\ parse_threshold_list(w.milestone_thresholds) = <<>>
        \/ e = "charging" /\ parse_threshold_list(w.charging_milestones) = <<>>
        \/ e = "timeout" /\ (w.notification_timeout < 1000 \/ w.notification_timeout > 30000)
        \/ e = "sleep" /\ (w.sleep_threshold < 60 \/ w.sleep_threshold > 3600)}

\* profile_data after save_profile's update()
updated_profile_data(w) ==
    merge_defaults(
        [notifications_enabled |-> w.notifications_enabled,
         play_sound |-> w.play_sound,
         notification_timeout |-> w.notification_timeout,
         sleep_notifications_enabled |-> w.sleep_notifications_enabled,
         sleep_threshold |-> w.sleep_threshold,
         milestone_thresholds |-> parse_threshold_list(w.milestone_thresholds),
         charging_milestones |-> parse_threshold_list(w.charging_milestones),
         version |-> EditorVersion],
        profile_data)

\* BattMonCrossPlatform.__init__: the profile loaded and its fields read
init_monitor(disk_ok) ==
    /\ monitor = "off"
    /\ \E loaded \in {load_user_profile(profile_json, disk_ok)} :
       /\ user_profile' = loaded.profile
       /\ profile_json' = loaded.file
       /\ sleep_threshold' = loaded.profile.sleep_threshold
       /\ sleep_notifications_enabled' = loaded.profile.sleep_notifications_enabled
       /\ milestone_thresholds' = loaded.profile.milestone_thresholds
       /\ charging_milestones' = loaded.profile.charging_milestones
       /\ notifications_enabled' = loaded.profile.notifications_enabled
       /\ play_sound' = loaded.profile.play_sound
    /\ monitor' = "running"
    /\ UNCHANGED <<host_vars, monitor_vars, tick_vars, observer_vars, popup_vars,
                   editor_vars>>

\* quit_application: the profile saved, then the process ends
quit_application(disk_ok) ==
    /\ monitor = "running"
    /\ \E saved \in {save_user_profile(profile_json, disk_ok)} :
       /\ user_profile' = saved.user_profile
       /\ profile_json' = saved.file
    /\ monitor' = "quit"
    /\ UNCHANGED <<battmon_vars, popup_vars, editor_vars>>

\* ProfileEditor.__init__: load_profile and update_ui_from_profile
open_editor ==
    /\ editor = "closed"
    /\ sessions < MaxSessions
    /\ sessions' = sessions + 1
    /\ editor' = "open"
    /\ profile_data' = load_profile(profile_json)
    /\ widgets' = update_ui_from_profile(profile_data')
    /\ save_result' = "none"
    /\ UNCHANGED <<battmon_vars, popup_vars, file_vars, editor_wrote>>

\* the texts the user types into a threshold field
ThresholdTexts ==
    {<<str(25), str(50), str(50)>>,
     <<str(150), str(100), Word, str(0)>>,
     <<str(150), Word>>,
     <<str(50), Superscript>>}

edit_milestone_thresholds(typed) ==
    /\ editor = "open"
    /\ widgets' = [widgets EXCEPT !.milestone_thresholds = typed]
    /\ save_result' = "none"
    /\ UNCHANGED <<battmon_vars, popup_vars, file_vars, editor, profile_data,
                   sessions, editor_wrote>>

edit_charging_milestones(typed) ==
    /\ editor = "open"
    /\ widgets' = [widgets EXCEPT !.charging_milestones = typed]
    /\ save_result' = "none"
    /\ UNCHANGED <<battmon_vars, popup_vars, file_vars, editor, profile_data,
                   sessions, editor_wrote>>

\* a click on the "Enable desktop notifications" check box
toggle_notifications_enabled ==
    /\ editor = "open"
    /\ widgets' = [widgets EXCEPT !.notifications_enabled = ~@]
    /\ save_result' = "none"
    /\ UNCHANGED <<battmon_vars, popup_vars, file_vars, editor, profile_data,
                   sessions, editor_wrote>>

\* reset_to_defaults, confirmed with Yes
reset_to_defaults ==
    /\ editor = "open"
    /\ profile_data' = get_default_profile
    /\ widgets' = update_ui_from_profile(profile_data')
    /\ save_result' = "none"
    /\ UNCHANGED <<battmon_vars, popup_vars, file_vars, editor, sessions, editor_wrote>>

\* Cancel: exec() returns and the editor process ends
reject ==
    /\ editor = "open"
    /\ editor' = "closed"
    /\ profile_data' = << >>
    /\ widgets' = << >>
    /\ save_result' = "none"
    /\ UNCHANGED <<battmon_vars, popup_vars, file_vars, sessions, editor_wrote>>

\* save_profile: refused with the warning box when validate_settings finds
\* fault; else profile_data updated and written, the dialog accepted and the
\* editor process over; an OSError of the write leaves the dialog open with
\* the error box
save_profile(disk_ok) ==
    /\ editor = "open"
    /\ IF validate_settings(widgets) # {}
       THEN /\ save_result' = "rejected"
            /\ UNCHANGED <<profile_json, profile_data, widgets, editor, editor_wrote>>
       ELSE \E updated \in {updated_profile_data(widgets)} :
            /\ profile_json' = written(profile_json, updated, disk_ok)
            /\ profile_data' = IF disk_ok THEN << >> ELSE updated
            /\ widgets' = IF disk_ok THEN << >> ELSE widgets
            /\ editor' = IF disk_ok THEN "closed" ELSE "open"
            /\ save_result' = IF disk_ok THEN "saved" ELSE "failed"
            /\ editor_wrote' = IF disk_ok THEN monitor ELSE editor_wrote
    /\ UNCHANGED <<battmon_vars, popup_vars, monitor, user_profile, sessions>>

\* the profiles found on disk: the defaults, a profile saved by the editor,
\* and the profile of an older version that lacks the later keys
EditedProfile ==
    [get_default_profile EXCEPT !.milestone_thresholds = <<80, 50, 20>>,
                                !.charging_milestones = <<100, 50>>,
                                !.notifications_enabled = FALSE,
                                !.notification_timeout = 30000]

OlderProfile ==
    [milestone_thresholds |-> <<80, 50, 20>>, notifications_enabled |-> FALSE]

ProfileFiles ==
    {Missing, Invalid, JsonFile(default_profile), JsonFile(EditedProfile),
     JsonFile(OlderProfile)}

\* before the monitor starts: any of the files on disk, the editor not open
InitEditing ==
    /\ InitHost
    /\ watch = None
    /\ milestone_thresholds = default_milestone_thresholds
    /\ charging_milestones = default_charging_milestones
    /\ notifications_enabled = TRUE
    /\ play_sound = TRUE
    /\ sleep_notifications_enabled = TRUE
    /\ sleep_threshold = DefaultSleepThreshold
    /\ InitTracking
    /\ InitPopupManager
    /\ profile_json \in ProfileFiles
    /\ monitor = "off"
    /\ user_profile = << >>
    /\ editor = "closed"
    /\ profile_data = << >>
    /\ widgets = << >>
    /\ save_result = "none"
    /\ sessions = 0
    /\ editor_wrote = "never"

\* the monitor's writes may fail (an unwritable directory); the editor's
\* write is followed where it succeeds
NextEditing ==
    \/ \E disk_ok \in BOOLEAN : init_monitor(disk_ok)
    \/ \E disk_ok \in BOOLEAN : quit_application(disk_ok)
    \/ open_editor
    \/ \E t \in ThresholdTexts : edit_milestone_thresholds(t)
    \/ \E t \in ThresholdTexts : edit_charging_milestones(t)
    \/ toggle_notifications_enabled
    \/ reset_to_defaults
    \/ reject
    \/ save_profile(TRUE)

SpecEditing == InitEditing /\ [][NextEditing]_vars

----------------------------------------------------------------------------
\* C21: profile round trip.  Whenever the monitor (save_user_profile at quit)
\* or the Profile Editor (save_profile) has written profile.json, loading the
\* file gives back the flags and the two threshold lists the writer held,
\* with the discharge list in descending and the charging list in ascending
\* order.

Descending(list) == \A i \in 1..(Len(list) - 1) : list[i] > list[i + 1]

Ascending(list) == \A i \in 1..(Len(list) - 1) : list[i] < list[i + 1]

RoundTripKeys == {"milestone_thresholds", "charging_milestones"} \cup BoolKeys

RoundTrip(file, held) ==
    LET loaded == load_user_profile(file, TRUE).profile
    IN /\ \A k \in RoundTripKeys : loaded[k] = held[k]
       /\ Descending(loaded.milestone_thresholds)
       /\ Ascending(loaded.charging_milestones)

C21_RoundTrip ==
    [][/\ (monitor = "running" /\ monitor' = "quit" /\ profile_json' = JsonFile(user_profile'))
              => RoundTrip(profile_json', user_profile')
       /\ (editor = "open" /\ editor' = "closed" /\ save_result' = "saved")
              => RoundTrip(profile_json', updated_profile_data(widgets))]_vars

----------------------------------------------------------------------------
\* C22: load_user_profile at the start of the monitor.  The profile it
\* returns has every default key, with the file's value for a key the file
\* has and the default for any other; when the file is missing or is not
\* valid JSON the profile is the defaults and profile.json is left as it was.

C22_LoadMergesAndWritesNothing ==
    [][(monitor = "off" /\ monitor' = "running") =>
           /\ DOMAIN default_profile \subseteq DOMAIN user_profile'
           /\ \A k \in DOMAIN default_profile :
                  user_profile'[k] =
                      IF profile_json.kind = "json" /\ k \in DOMAIN profile_json.content
                      THEN json_load(profile_json.content)[k]
                      ELSE default_profile[k]
           /\ profile_json.kind \in {"missing", "invalid"} =>
                  /\ user_profile' = default_profile
                  /\ profile_json' = profile_json]_vars

----------------------------------------------------------------------------
\* C27: no lost update.  When the monitor quits after the Profile Editor has
\* written profile.json while the monitor was running, the file after
\* quit_application still holds the thresholds and flags the editor wrote.

C27_EditorSaveSurvivesQuit ==
    [][(monitor = "running" /\ monitor' = "quit" /\ editor_wrote = "running") =>
           /\ profile_json'.kind = "json"
           /\ \A k \in RoundTripKeys :
                  profile_json'.content[k] = profile_json.content[k]]_vars

----------------------------------------------------------------------------
\* C29: the editor's save is all or nothing.  A save_profile with a threshold
\* field that parses to an empty list, a timeout outside 1000..30000 or a
\* sleep threshold outside 60..3600 is refused: profile.json and profile_data
\* stay as they were and the dialog stays open.  A save that is not refused
\* writes for each list what parse_threshold_list makes of its field, and
\* that holds distinct integers of 0..100 only.

Faulty(w) ==
    \/ parse_threshold_list(w.milestone_thresholds) = <<>>
    \/ parse_threshold_list(w.charging_milestones) = <<>>
    \/ w.notification_timeout \notin 1000..30000
    \/ w.sleep_threshold \notin 60..3600

Percentages(list) ==
    /\ \A i \in DOMAIN list : list[i] \in 0..100
    /\ \A i, j \in DOMAIN list : i # j => list[i] # list[j]

====
